---- MODULE Spec2Model ----
(***************************************************************************)
(* State-machine model of fetch_news/spon.py: the archive crawler, the     *)
(* article fetcher, the pickle snapshot store and the JSON export.         *)
(*                                                                         *)
(* Conventions.  A Python str is a sequence of tokens (a token is a TLA+   *)
(* string), so that replace/strip/startswith are computed.  An optional    *)
(* value is None (the empty sequence) or Some(x) (a one-element sequence). *)
(* A Python dict is a sequence of [k, v] pairs in insertion order.  A date *)
(* is its day number; date.isoformat() is injective and is left implicit.  *)
(***************************************************************************)
EXTENDS Integers, Sequences, FiniteSets, TLC

\* ---------------------------------------------------------------- bounds

MaxDays == 2

MaxRuns == 2

MaxTeasers == 2

MaxArts == 2

\* ------------------------------------------------------------- constants

START_DATE == 1

END_DATE == START_DATE + MaxDays

duration == END_DATE - START_DATE

ARCHIVE_CACHE == <<"cache/spon_archive.pickle">>

ARTICLES_CACHE == <<"cache/spon_articles.pickle">>

OUTPUT_JSON == <<"data/spon.json">>

Backup(fname) == fname \o <<"~">>

None == <<>>

Some(x) == <<x>>

\* ------------------------------------------------------- string helpers

RECURSIVE Lstrip(_, _)
Lstrip(s, chars) ==
    IF s # <<>> /\ Head(s) \in chars THEN Lstrip(Tail(s), chars) ELSE s

RECURSIVE Rstrip(_, _)
Rstrip(s, chars) ==
    IF s # <<>> /\ s[Len(s)] \in chars
    THEN Rstrip(SubSeq(s, 1, Len(s) - 1), chars)
    ELSE s

Whitespace == {" ", "\n"}

Strip(s) == Rstrip(Lstrip(s, Whitespace), Whitespace)

RECURSIVE Remove(_, _)
Remove(s, tok) ==
    IF s = <<>> THEN <<>>
    ELSE IF Head(s) = tok THEN Remove(Tail(s), tok)
    ELSE <<Head(s)>> \o Remove(Tail(s), tok)

Replace(s, tok, repl) == [i \in DOMAIN s |-> IF s[i] = tok THEN repl ELSE s[i]]

elem_text(elem) == Strip(Replace(Remove(elem, "Icon: Spiegel Plus"), "nbsp", " "))

\* --------------------------------------------------------- dict helpers

Keys(d) == {d[i].k : i \in DOMAIN d}

HasKey(d, k) == k \in Keys(d)

Get(d, k) == d[CHOOSE i \in DOMAIN d : d[i].k = k].v

Put(d, k, v) ==
    IF HasKey(d, k)
    THEN [i \in DOMAIN d |-> IF d[i].k = k THEN [k |-> k, v |-> v] ELSE d[i]]
    ELSE Append(d, [k |-> k, v |-> v])

\* defaultdict.__getitem__: a missing key is inserted with the default
Touch(d, k, default) == IF HasKey(d, k) THEN d ELSE Append(d, [k |-> k, v |-> default])

\* ------------------------------------------------------------- error()

error_key(msg, obj, key) ==
    LET o == Touch(obj, key, <<>>)
    IN  Put(o, key, Append(Get(o, key), [error_message |-> Lstrip(msg, {" ", ">"})]))

error_obj(msg, obj) ==
    [f \in DOMAIN obj \cup {"error_message"} |->
        IF f = "error_message" THEN Lstrip(msg, {" ", ">"}) ELSE obj[f]]

IsError(e) == "error_message" \in DOMAIN e

Msg(text) == <<">", ">", " ", text>>

\* ------------------------------------------------- pickle (dump / load)

\* pickle.dump of a cache: a dict whose values are lists.  The stream is a
\* sequence of opcodes ending in STOP, as pickle writes it.
RECURSIVE DumpItems(_)
DumpItems(items) ==
    IF items = <<>> THEN <<>>
    ELSE <<[op |-> "APPEND", item |-> Head(items)]>> \o DumpItems(Tail(items))

RECURSIVE DumpPairs(_)
DumpPairs(d) ==
    IF d = <<>> THEN <<>>
    ELSE <<[op |-> "KEY", key |-> Head(d).k], [op |-> "EMPTY_LIST"]>>
         \o DumpItems(Head(d).v) \o <<[op |-> "SETITEM"]>> \o DumpPairs(Tail(d))

pickle_dump(data) ==
    <<[op |-> "PROTO"], [op |-> "EMPTY_DICT"]>> \o DumpPairs(data) \o <<[op |-> "STOP"]>>

\* the unpickling machine: (dict built so far, current key, current list)
RECURSIVE Unpickle(_, _, _, _)
Unpickle(bytes, d, key, list) ==
    IF bytes = <<>> THEN d
    ELSE LET t == Head(bytes) rest == Tail(bytes)
         IN  CASE t.op = "KEY"        -> Unpickle(rest, d, t.key, list)
               [] t.op = "EMPTY_LIST" -> Unpickle(rest, d, key, <<>>)
               [] t.op = "APPEND"     -> Unpickle(rest, d, key, Append(list, t.item))
               [] t.op = "SETITEM"    -> Unpickle(rest, Append(d, [k |-> key, v |-> list]), key, list)
               [] OTHER               -> Unpickle(rest, d, key, list)

\* pickle.load raises (EOFError, UnpicklingError) on a stream without STOP
pickle_load(bytes) ==
    IF bytes = <<>> \/ bytes[Len(bytes)].op # "STOP"
    THEN [ok |-> FALSE, data |-> <<>>]
    ELSE [ok |-> TRUE, data |-> Unpickle(bytes, <<>>, 0, <<>>)]

\* --------------------------------------------------------- file system

NoFile == [exists |-> FALSE, bytes |-> <<>>]

File(bytes) == [exists |-> TRUE, bytes |-> bytes]

Files == {ARCHIVE_CACHE, Backup(ARCHIVE_CACHE), ARTICLES_CACHE, Backup(ARTICLES_CACHE), OUTPUT_JSON}

\* mutant: an existing dst is kept
os_rename_KeepDst(fs, src, dst) ==
    IF fs[dst].exists THEN [fs EXCEPT ![src] = NoFile]
    ELSE [fs EXCEPT ![dst] = fs[src], ![src] = NoFile]

\* os.rename(src, dst): dst is replaced, src is gone
os_rename(fs, src, dst) == [fs EXCEPT ![dst] = fs[src], ![src] = NoFile]

\* load_data_from_pickle(fname, nonexistent_init_data) with a default given
load_data_from_pickle(fs, fname, nonexistent_init_data) ==
    IF fs[fname].exists
    THEN pickle_load(fs[fname].bytes)
    ELSE [ok |-> TRUE, data |-> nonexistent_init_data]

\* ------------------------------------------------- the web site (input)

SPON == "https://www.spiegel.de"

U1 == <<SPON, "/", "a1", ".html">>

U2 == <<SPON, "/", "a2", ".html">>

UB == <<"https://www.bento.de", "/", "b3", ".html">>

\* teaser footers: <footer><span>time</span><span>..</span><span>category</span>
FootOk == << <<"13", ".", "05", " ", "Uhr">>, <<"24. November">>, <<" ", "Politik", "nbsp", "Inland", " ">> >>

FootNoTime == << <<"gestern">>, <<"24. November">>, <<"Sport">> >>

FootBadTime == << <<"25", ".", "00", " ", "Uhr">>, <<"24. November">>, <<"Sport">> >>

FootShort == << <<"13", ".", "05", " ", "Uhr">>, <<"Politik">> >>

\* an <article> teaser of the listing page: its conditional flags, whether
\* its text holds the ad marker, its h2 a element, and its footer spans
Teaser(flags, ad, title_elem, href, title, hfoot) ==
    [flags |-> flags, ad |-> ad, title_elem |-> title_elem, href |-> href,
     title |-> title, hfoot |-> hfoot]

TOk(url) == Teaser({}, FALSE, TRUE, url, <<"Head", "nbsp", "line">>, FootOk)

TGallery == Teaser({"gallery"}, FALSE, TRUE, U1, <<"Bilder">>, FootOk)

TAd == Teaser({}, TRUE, TRUE, U1, <<"ANZEIGE">>, FootOk)

TNoLink == Teaser({}, FALSE, FALSE, <<>>, <<>>, FootOk)

TNoHeadline == Teaser({}, FALSE, TRUE, U1, <<>>, FootOk)

TShortFoot == Teaser({}, FALSE, TRUE, U1, <<"Head">>, FootShort)

TNoTime == Teaser({}, FALSE, TRUE, U1, <<"Head">>, FootNoTime)

TBadTime == Teaser({}, FALSE, TRUE, U2, <<"Head">>, FootBadTime)

\* every kind of teaser the teaser loop tells apart
AllTeasers == {TOk(U1), TOk(U2), TGallery, TAd, TNoLink, TNoHeadline, TShortFoot, TNoTime, TBadTime}

\* the teasers the modelled site serves
Teasers == {TOk(U1), TGallery, TAd, TNoHeadline, TNoTime, TBadTime}

RECURSIVE SeqsUpTo(_, _)
SeqsUpTo(S, n) ==
    IF n = 0 THEN {<<>>}
    ELSE LET shorter == SeqsUpTo(S, n - 1)
         IN  shorter \cup {Append(s, x) : s \in {t \in shorter : Len(t) = n - 1}, x \in S}

\* what requests.get on a listing URL can give: an IOError, or a response
\* with its ok flag and the teaser-list containers of the parsed page
ArchiveResponses ==
    {[kind |-> "IOError"], [kind |-> "resp", ok |-> FALSE, container |-> <<>>]}
    \cup {[kind |-> "resp", ok |-> TRUE, container |-> c] : c \in {<<>>, << <<>>, <<>> >>}}
    \cup {[kind |-> "resp", ok |-> TRUE, container |-> <<hs>>] : hs \in SeqsUpTo(Teasers, MaxTeasers)}

\* ---------------------------------------------------- teaser processing

Numerals == {"13", "25", "05", "00"}

IntOf(tok) == CASE tok = "13" -> 13 [] tok = "25" -> 25 [] tok = "05" -> 5 [] OTHER -> 0

\* pttrn_time = (\d+).(\d{2})\s+Uhr$ searched in the stripped footer text
pttrn_time_search(date_str) ==
    LET n == Len(date_str)
    IN  IF /\ n >= 5
           /\ date_str[n] = "Uhr"
           /\ date_str[n - 1] \in Whitespace
           /\ date_str[n - 2] \in Numerals
           /\ date_str[n - 4] \in Numerals
        THEN Some(<<date_str[n - 4], date_str[n - 2]>>)
        ELSE None

\* datetime.time(h, m) raises ValueError outside 0..23, 0..59
ValidTime(h, m) == h \in 0..23 /\ m \in 0..59

Excluded(hcont) == hcont.flags \cap {"gallery", "video", "audio", "paid"} # {} \/ hcont.ad

\* one iteration of the teaser loop: the rows after it, and whether an
\* exception left the loop (pub_time.isoformat() on None)
ProcessTeaser(rows, fetch_date_str, hcont, now) ==
    IF Excluded(hcont) THEN [rows |-> rows, raised |-> FALSE]
    ELSE
    LET url == IF hcont.title_elem THEN Some(hcont.href) ELSE None
    IN  IF url # None /\ url[1] # <<>>
        THEN IF hcont.title = <<>>
             THEN [rows |-> error_key(Msg("no headline given"), rows, fetch_date_str),
                   raised |-> FALSE]
             ELSE
             LET headline == Replace(hcont.title, "nbsp", " ")
                 hfoot == hcont.hfoot
             IN  IF Len(hfoot) = 3
                 THEN LET m_time == pttrn_time_search(Strip(hfoot[1]))
                          pub_time ==
                              IF m_time # None /\ ValidTime(IntOf(m_time[1][1]), IntOf(m_time[1][2]))
                              THEN Some(<<IntOf(m_time[1][1]), IntOf(m_time[1][2])>>)
                              ELSE None
                          articlecateg == elem_text(hfoot[3])
                      IN  IF pub_time = None
                          THEN [rows |-> Touch(rows, fetch_date_str, <<>>), raised |-> TRUE]
                          ELSE LET o == Touch(rows, fetch_date_str, <<>>)
                               IN  [rows |-> Put(o, fetch_date_str,
                                        Append(Get(o, fetch_date_str),
                                               [archive_headline |-> headline,
                                                url |-> url[1],
                                                archive_retrieved |-> now,
                                                categ |-> articlecateg,
                                                pub_date |-> fetch_date_str,
                                                pub_time |-> pub_time[1]])),
                                    raised |-> FALSE]
                 ELSE [rows |-> error_key(Msg("no valid teaser footer"), rows, fetch_date_str),
                       raised |-> FALSE]
        ELSE [rows |-> error_key(Msg("no URL in headline link"), rows, fetch_date_str),
              raised |-> FALSE]

RECURSIVE ProcessTeasers(_, _, _, _)
ProcessTeasers(rows, fetch_date_str, headlines_container, now) ==
    IF headlines_container = <<>> THEN [rows |-> rows, raised |-> FALSE]
    ELSE LET r == ProcessTeaser(rows, fetch_date_str, Head(headlines_container), now)
         IN  IF r.raised THEN r
             ELSE ProcessTeasers(r.rows, fetch_date_str, Tail(headlines_container), now)

\* the body of the day loop after a response has come
ProcessListing(rows, fetch_date_str, r, now) ==
    IF r.ok
    THEN IF Len(r.container) = 1
         THEN ProcessTeasers(rows, fetch_date_str, r.container[1], now)
         ELSE [rows |-> error_key(Msg("unexpected number of elements in main container: ")
                                      \o <<ToString(Len(r.container))>>, rows, fetch_date_str),
               raised |-> FALSE]
    ELSE [rows |-> error_key(Msg("response not OK"), rows, fetch_date_str), raised |-> FALSE]

\* mutant: a date counts as fetched only if none of its entries has an error
AlreadyFetched_AllClean(rows, fetch_date_str) ==
    /\ HasKey(rows, fetch_date_str)
    /\ Len(Get(rows, fetch_date_str)) > 0
    /\ \A i \in DOMAIN Get(rows, fetch_date_str) : ~IsError(Get(rows, fetch_date_str)[i])

\* the already-fetched check of the day loop
AlreadyFetched(rows, fetch_date_str) ==
    /\ HasKey(rows, fetch_date_str)
    /\ Len(Get(rows, fetch_date_str)) > 0
    /\ ~IsError(Get(rows, fetch_date_str)[1])

\* -------------------------------------------------- article pages (input)

\* a parsed article page: whether it has the gallery activator, a
\* 'main article' element, a 'header h2' and its spans, the intro block,
\* the author link found after it, and its body containers
Page(gallery, main_article, has_h2, h2spans, intro, author_a, bodies) ==
    [gallery |-> gallery, main_article |-> main_article, has_h2 |-> has_h2,
     h2spans |-> h2spans, intro |-> intro, author_a |-> author_a, bodies |-> bodies]

Body(div_pars, section_pars) == [div_pars |-> div_pars, section_pars |-> section_pars]

Spans == << <<"Top", "nbsp", "line">>, <<" ", "Headline">> >>

PGood == Page(FALSE, TRUE, TRUE, Spans, Some(<<"Intro", " ">>), Some(<<"Author">>),
              <<Body(<< <<"P1">>, <<"P2">> >>, <<>>)>>)

PNoIntro == Page(FALSE, TRUE, TRUE, <<>>, None, None,
                 <<Body(<<>>, << <<"Lead">>, <<"P2">> >>)>>)

PNoArticle == Page(FALSE, FALSE, FALSE, <<>>, None, None, <<>>)

PNoBody == Page(FALSE, TRUE, TRUE, Spans, Some(<<"Intro">>), None, <<>>)

PTwoBodies == Page(TRUE, FALSE, TRUE, Spans, Some(<<"Intro">>), None,
                   <<Body(<< <<"P1">> >>, <<>>), Body(<< <<"P2">> >>, <<>>)>>)

PBare == Page(FALSE, TRUE, FALSE, <<>>, None, None, <<>>)

\* every kind of page the article loop tells apart
AllArticlePages == {PGood, PNoIntro, PNoArticle, PNoBody, PTwoBodies, PBare}

ArticleResponsesOf(pages) ==
    {[kind |-> "IOError"], [kind |-> "resp", ok |-> FALSE, page |-> PNoArticle]}
    \cup {[kind |-> "resp", ok |-> TRUE, page |-> p] : p \in pages}

AllArticleResponses == ArticleResponsesOf(AllArticlePages)

\* the pages the modelled site serves
ArticlePages == {PGood, PNoBody, PTwoBodies, PBare}

ArticleResponses == ArticleResponsesOf(ArticlePages)

\* --------------------------------------------------- article processing

\* dict.update: the keys of upd are set, the others kept
Update(obj, upd) ==
    [f \in DOMAIN obj \cup DOMAIN upd |-> IF f \in DOMAIN upd THEN upd[f] ELSE obj[f]]

MapText(pars) == [i \in DOMAIN pars |-> elem_text(pars[i])]

\* the body of the article loop after a response has come: the record as
\* it is then, and how the iteration ended: "stored" (record updated and
\* stored, store_pickle follows), "error" (error recorded and stored,
\* continue), "raised" (an uncaught exception)
ProcessArticle(art, r, now) ==
    IF ~r.ok THEN [art |-> error_obj(Msg("response not OK"), art), end |-> "error"]
    ELSE
    LET page == r.page IN
    IF ~page.gallery /\ ~page.main_article
    THEN [art |-> error_obj(Msg("no valid article element found"), art), end |-> "error"]
    ELSE
    LET topline == IF Len(page.h2spans) < 2 THEN None ELSE Some(elem_text(page.h2spans[1]))
        headline == IF Len(page.h2spans) < 2 THEN None ELSE Some(elem_text(page.h2spans[2]))
        intro0 == IF page.intro # None THEN Some(elem_text(page.intro[1])) ELSE None
        author == IF page.author_a # None THEN Some(elem_text(page.author_a[1])) ELSE None
    IN  IF page.intro = None /\ ~page.has_h2
        THEN [art |-> art, end |-> "raised"]
        ELSE IF Len(page.bodies) # 1
        THEN [art |-> error_obj(Msg("no valid article body element found"), art), end |-> "error"]
        ELSE
        LET body_elem == page.bodies[1]
            pars0 == IF body_elem.div_pars # <<>> THEN MapText(body_elem.div_pars)
                     ELSE MapText(body_elem.section_pars)
            promote == (intro0 = None \/ intro0 = Some(<<>>)) /\ Len(pars0) > 0
            intro == IF promote THEN Some(Head(pars0)) ELSE intro0
            body_pars == IF promote THEN Tail(pars0) ELSE pars0
        IN  [art |-> Update(art, [retrieved |-> now, topline |-> topline,
                                  headline |-> headline, author |-> author,
                                  intro |-> intro, paragraphs |-> body_pars]),
             end |-> "stored"]

StartsWith(s, prefix) == Len(s) >= Len(prefix) /\ SubSeq(s, 1, Len(prefix)) = prefix

\* mutant: any stored record counts as scraped, an error record too
AlreadyScraped_AnyRecord(data, fetch_date, url) ==
    /\ HasKey(data, fetch_date)
    /\ HasKey(Get(data, fetch_date), url)

\* mutant: the error test is inverted
AlreadyScraped_Inverted(data, fetch_date, url) ==
    /\ HasKey(data, fetch_date)
    /\ HasKey(Get(data, fetch_date), url)
    /\ IsError(Get(Get(data, fetch_date), url))

\* the already-scraped check of the article loop
AlreadyScraped(data, fetch_date, url) ==
    /\ HasKey(data, fetch_date)
    /\ HasKey(Get(data, fetch_date), url)
    /\ ~IsError(Get(Get(data, fetch_date), url))

\* mutant: the record is merged into the one already stored for the URL
StoreArticle_Merge(data, fetch_date, url, art) ==
    LET o == Touch(data, fetch_date, <<>>)
        old == IF HasKey(Get(o, fetch_date), url) THEN Get(Get(o, fetch_date), url) ELSE art
    IN  Put(o, fetch_date, Put(Get(o, fetch_date), url, Update(old, art)))

\* articles_data[fetch_date][url] = art
StoreArticle(data, fetch_date, url, art) ==
    LET o == Touch(data, fetch_date, <<>>)
    IN  Put(o, fetch_date, Put(Get(o, fetch_date), url, art))

\* mutant: records with an error are left out of the export
RECURSIVE Flatten_SkipErrors(_)
Flatten_SkipErrors(data) ==
    IF data = <<>> THEN <<>>
    ELSE SelectSeq([i \in DOMAIN Head(data).v |-> Head(data).v[i].v],
                   LAMBDA rec : ~IsError(rec))
         \o Flatten_SkipErrors(Tail(data))

\* json.dump of the flattened cache: one object per record, in order
RECURSIVE Flatten(_)
Flatten(data) ==
    IF data = <<>> THEN <<>>
    ELSE [i \in DOMAIN Head(data).v |-> Head(data).v[i].v] \o Flatten(Tail(data))

json_dump(list) ==
    <<[op |-> "["]>> \o [i \in DOMAIN list |-> [op |-> "{}", obj |-> list[i]]] \o <<[op |-> "]"]>>

\* ---------------------------------------------------------------- state

VARIABLES
    pc,             \* where the process is; "off" when no process runs
    run,            \* number of process starts so far (also the clock)
    status,         \* how the last process ended
    abort_script,   \* the global flag set by handle_abort
    day,            \* the day loop's index
    archive_rows,   \* the in-memory ArchiveCache
    articles_data,  \* the in-memory ArticlesCache
    fday,           \* the article loop's position among the archive's dates
    i_art,          \* the article loop's position in the day's list
    disk,           \* the files
    frame,          \* store_pickle's call frame: file, data, return point
    requests,       \* the HTTP requests issued by this process, in order
    loaded,         \* the ArchiveCache as loaded when this process started
    lastSaved,      \* per cache file, the data of the last completed save
    failed,         \* the (date, URL) whose latest request ended in an error
    sponraw,        \* prepare.py: the records loaded from the JSON file
    corpus,         \* prepare.py: document label -> raw article text
    meta,           \* prepare.py: document label -> document metadata
    i_prep          \* prepare.py: the corpus loop's position in sponraw

vars == <<pc, run, status, abort_script, day, archive_rows, articles_data, fday, i_art,
          disk, frame, requests, loaded, lastSaved, failed,
          sponraw, corpus, meta, i_prep>>

\* the variables of prepare.py
prepare == <<sponraw, corpus, meta, i_prep>>

\* the article loop's variables
fetcher == <<articles_data, fday, i_art>>

NoFrame == [fname |-> <<>>, data |-> <<>>, bytes |-> <<>>, ret |-> "none"]

Init ==
    /\ pc = "off"
    /\ run = 0
    /\ status = "none"
    /\ abort_script = FALSE
    /\ day = 0
    /\ archive_rows = <<>>
    /\ articles_data = <<>>
    /\ fday = 0
    /\ i_art = 0
    /\ disk = [f \in Files |-> NoFile]
    /\ frame = NoFrame
    /\ requests = <<>>
    /\ loaded = <<>>
    /\ lastSaved = [f \in {ARCHIVE_CACHE, ARTICLES_CACHE} |-> None]
    /\ failed = {}
    /\ sponraw = <<>>
    /\ corpus = <<>>
    /\ meta = <<>>
    /\ i_prep = 0

fetch_date_of(d) == START_DATE + d

\* the memory of a process that is gone
Forget ==
    /\ abort_script' = FALSE
    /\ day' = 0
    /\ archive_rows' = <<>>
    /\ articles_data' = <<>>
    /\ fday' = 0
    /\ i_art' = 0
    /\ frame' = NoFrame
    /\ loaded' = <<>>
    /\ requests' = <<>>

\* an uncaught exception ends the process
Raise ==
    /\ pc' = "off"
    /\ status' = "crashed"
    /\ Forget

\* ------------------------------------------------------- process start

\* python spon.py: module initialisation up to the day loop
StartRun ==
    /\ pc = "off"
    /\ run < MaxRuns
    /\ run' = run + 1
    /\ LET l == load_data_from_pickle(disk, ARCHIVE_CACHE, <<>>)
       IN  IF l.ok
           THEN /\ pc' = "crawl"
                /\ status' = "running"
                /\ archive_rows' = l.data
                /\ loaded' = l.data
           ELSE /\ pc' = "off"
                /\ status' = "crashed"
                /\ archive_rows' = <<>>
                /\ loaded' = <<>>
    /\ abort_script' = FALSE
    /\ day' = 0
    /\ frame' = NoFrame
    /\ requests' = <<>>
    /\ UNCHANGED <<fetcher, disk, lastSaved>>
    /\ UNCHANGED failed
    /\ UNCHANGED prepare

\* handle_abort: SIGINT, SIGHUP or SIGTERM arrives
Signal ==
    /\ pc # "off"
    /\ ~abort_script
    /\ abort_script' = TRUE
    /\ UNCHANGED <<pc, run, status, day, archive_rows, fetcher, disk, frame, requests,
                   loaded, lastSaved>>
    /\ UNCHANGED failed
    /\ UNCHANGED prepare

\* SIGKILL or power loss: the process is gone, the files stay as they are
Kill ==
    /\ pc # "off"
    /\ pc' = "off"
    /\ status' = "killed"
    /\ Forget
    /\ UNCHANGED <<run, disk, lastSaved>>
    /\ UNCHANGED failed
    /\ UNCHANGED prepare

\* -------------------------------------------------------- store_pickle

\* the call: the data is serialised from the cache as it is now
Call_store_pickle(data, fname, ret) ==
    /\ frame' = [fname |-> fname, data |-> data, bytes |-> pickle_dump(data), ret |-> ret]
    /\ pc' = "store_rotate"

\* mutant: no rotation (rotate_files=False)
Rotate_Never(fs, fname) == fs

\* if rotate_files and os.path.exists(fname): os.rename(fname, fname + '~')
Rotate(fs, fname) ==
    IF fs[fname].exists THEN os_rename(fs, fname, Backup(fname)) ELSE fs

StoreRotate ==
    /\ pc = "store_rotate"
    /\ disk' = Rotate(disk, frame.fname)
    /\ pc' = "store_open"
    /\ UNCHANGED <<run, status, abort_script, day, archive_rows, fetcher, frame, requests,
                   loaded, lastSaved>>
    /\ UNCHANGED failed
    /\ UNCHANGED prepare

\* open(fname, 'wb'): the file is created or truncated
StoreOpen ==
    /\ pc = "store_open"
    /\ disk' = [disk EXCEPT ![frame.fname] = File(<<>>)]
    /\ pc' = "store_dump"
    /\ UNCHANGED <<run, status, abort_script, day, archive_rows, fetcher, frame, requests,
                   loaded, lastSaved>>
    /\ UNCHANGED failed
    /\ UNCHANGED prepare

\* pickle.dump in progress: a first part of the stream has reached the file
StoreFlush ==
    /\ pc = "store_dump"
    /\ disk' = [disk EXCEPT ![frame.fname] =
                    File(SubSeq(frame.bytes, 1, Len(frame.bytes) - 1))]
    /\ pc' = "store_close"
    /\ UNCHANGED <<run, status, abort_script, day, archive_rows, fetcher, frame, requests,
                   loaded, lastSaved>>
    /\ UNCHANGED failed
    /\ UNCHANGED prepare

\* the with block ends: the whole stream is in the file; store_pickle
\* returns to its caller
StoreClose ==
    /\ pc = "store_close"
    /\ disk' = [disk EXCEPT ![frame.fname] = File(frame.bytes)]
    /\ lastSaved' = [lastSaved EXCEPT ![frame.fname] = Some(frame.data)]
    /\ frame' = NoFrame
    /\ CASE frame.ret = "crawl_next" ->
                /\ pc' = "crawl"
                /\ day' = day + 1
                /\ UNCHANGED i_art
         [] frame.ret = "fetch_next" ->
                /\ pc' = "fetch_art"
                /\ i_art' = i_art + 1
                /\ UNCHANGED day
         [] OTHER ->
                /\ pc' = frame.ret
                /\ UNCHANGED <<day, i_art>>
    /\ UNCHANGED <<run, status, abort_script, archive_rows, articles_data, fday, requests,
                   loaded>>
    /\ UNCHANGED failed
    /\ UNCHANGED prepare

\* ------------------------------------------------------ archive crawler

\* range(duration.days) is exhausted
CrawlEnd ==
    /\ pc = "crawl"
    /\ day >= duration
    /\ pc' = "crawl_final"
    /\ UNCHANGED <<run, status, abort_script, day, archive_rows, fetcher, disk, frame,
                   requests, loaded, lastSaved>>
    /\ UNCHANGED failed
    /\ UNCHANGED prepare

\* if abort_script: break
CrawlBreak ==
    /\ pc = "crawl"
    /\ day < duration
    /\ abort_script
    /\ pc' = "crawl_final"
    /\ UNCHANGED <<run, status, abort_script, day, archive_rows, fetcher, disk, frame,
                   requests, loaded, lastSaved>>
    /\ UNCHANGED failed
    /\ UNCHANGED prepare

\* already fetched this date: continue
CrawlSkip ==
    /\ pc = "crawl"
    /\ day < duration
    /\ ~abort_script
    /\ AlreadyFetched(archive_rows, fetch_date_of(day))
    /\ day' = day + 1
    /\ UNCHANGED <<pc, run, status, abort_script, archive_rows, fetcher, disk, frame,
                   requests, loaded, lastSaved>>
    /\ UNCHANGED failed
    /\ UNCHANGED prepare

\* mutant: the request does not depend on the abort flag
CrawlRequest_NoAbortCheck ==
    /\ pc = "crawl"
    /\ day < duration
    /\ ~AlreadyFetched(archive_rows, fetch_date_of(day))
    /\ requests' = Append(requests, [kind |-> "archive", date |-> fetch_date_of(day), url |-> <<>>])
    /\ pc' = "archive_get"
    /\ UNCHANGED <<run, status, abort_script, day, archive_rows, fetcher, disk, frame,
                   loaded, lastSaved, failed>>
    /\ UNCHANGED prepare

\* requests.get(archive_url) is issued
CrawlRequest ==
    /\ pc = "crawl"
    /\ day < duration
    /\ ~abort_script
    /\ ~AlreadyFetched(archive_rows, fetch_date_of(day))
    /\ requests' = Append(requests, [kind |-> "archive", date |-> fetch_date_of(day), url |-> <<>>])
    /\ pc' = "archive_get"
    /\ UNCHANGED <<run, status, abort_script, day, archive_rows, fetcher, disk, frame,
                   loaded, lastSaved>>
    /\ UNCHANGED failed
    /\ UNCHANGED prepare

\* mutant: the day is tried again in the same run
CrawlIOError_Retry ==
    /\ pc = "archive_get"
    /\ archive_rows' = error_key(Msg("IO error on request"), archive_rows, fetch_date_of(day))
    /\ pc' = "crawl"
    /\ UNCHANGED <<run, status, abort_script, day, fetcher, disk, frame, requests, loaded,
                   lastSaved>>
    /\ UNCHANGED failed
    /\ UNCHANGED prepare

\* except IOError: error(...); continue
CrawlIOError ==
    /\ pc = "archive_get"
    /\ archive_rows' = error_key(Msg("IO error on request"), archive_rows, fetch_date_of(day))
    /\ day' = day + 1
    /\ pc' = "crawl"
    /\ UNCHANGED <<run, status, abort_script, fetcher, disk, frame, requests, loaded,
                   lastSaved>>
    /\ UNCHANGED failed
    /\ UNCHANGED prepare

\* a response came: the page is parsed, the day's rows are extended, and
\* store_pickle is called; pub_time.isoformat() on None ends the process
CrawlResponse ==
    /\ pc = "archive_get"
    /\ \E r \in {x \in ArchiveResponses : x.kind = "resp"} :
         LET res == ProcessListing(archive_rows, fetch_date_of(day), r, run)
             rows == Touch(res.rows, fetch_date_of(day), <<>>)
         IN  IF res.raised
             THEN /\ Raise
                  /\ UNCHANGED <<run, disk, lastSaved>>
             ELSE /\ archive_rows' = rows
                  /\ Call_store_pickle(rows, ARCHIVE_CACHE, "crawl_next")
                  /\ UNCHANGED <<run, status, abort_script, day, fetcher, disk, requests,
                                 loaded, lastSaved>>
    /\ UNCHANGED failed
    /\ UNCHANGED prepare

\* if not abort_script: store_pickle(archive_rows, ...)
CrawlFinal ==
    /\ pc = "crawl_final"
    /\ IF abort_script
       THEN pc' = "fetch_load" /\ frame' = frame
       ELSE Call_store_pickle(archive_rows, ARCHIVE_CACHE, "fetch_load")
    /\ UNCHANGED <<run, status, abort_script, day, archive_rows, fetcher, disk, requests,
                   loaded, lastSaved>>
    /\ UNCHANGED failed
    /\ UNCHANGED prepare

\* the rest of the script (article fetcher, export), which never writes the
\* archive cache file
RestOfRun ==
    /\ pc = "fetch_load"
    /\ pc' = "off"
    /\ status' = IF abort_script THEN "aborted" ELSE "done"
    /\ Forget
    /\ UNCHANGED <<run, disk, lastSaved>>
    /\ UNCHANGED failed
    /\ UNCHANGED prepare

NextCrawl ==
    \/ StartRun
    \/ Signal
    \/ Kill
    \/ StoreRotate
    \/ StoreOpen
    \/ StoreFlush
    \/ StoreClose
    \/ CrawlEnd
    \/ CrawlBreak
    \/ CrawlSkip
    \/ CrawlRequest
    \/ CrawlIOError
    \/ CrawlResponse
    \/ CrawlFinal
    \/ RestOfRun

SpecCrawl == Init /\ [][NextCrawl]_vars

\* ------------------------------------------------------ article fetcher

\* the archive caches a crawl leaves in which every day is already fetched:
\* what the teaser loop makes of a page of at most MaxArts teasers for the
\* first day and of one teaser for each later day
FetchTeasers == {TOk(U1), TOk(U2), TNoHeadline}

FetchTeasersNext == {TOk(U1), TOk(UB)}

CrawledDay(rows, d, hs) == ProcessTeasers(rows, d, hs, 0).rows

RECURSIVE CrawledFrom(_, _)
CrawledFrom(rows, d) ==
    IF d >= END_DATE THEN {rows}
    ELSE UNION {CrawledFrom(CrawledDay(rows, d, hs), d + 1) :
                  hs \in IF d = START_DATE THEN SeqsUpTo(FetchTeasers, MaxArts)
                         ELSE SeqsUpTo(FetchTeasersNext, 1)}

CrawledArchives ==
    {a \in CrawledFrom(<<>>, START_DATE) :
        \A d \in START_DATE..(END_DATE - 1) : AlreadyFetched(a, d)}

\* the files after a crawl that ended with its final store_pickle
InitFetch ==
    /\ pc = "off"
    /\ run = 0
    /\ status = "none"
    /\ abort_script = FALSE
    /\ day = 0
    /\ archive_rows = <<>>
    /\ articles_data = <<>>
    /\ fday = 0
    /\ i_art = 0
    /\ \E a \in CrawledArchives :
         /\ disk = [f \in Files |->
                      IF f \in {ARCHIVE_CACHE, Backup(ARCHIVE_CACHE)}
                      THEN File(pickle_dump(a)) ELSE NoFile]
         /\ lastSaved = [f \in {ARCHIVE_CACHE, ARTICLES_CACHE} |->
                           IF f = ARCHIVE_CACHE THEN Some(a) ELSE None]
    /\ frame = NoFrame
    /\ requests = <<>>
    /\ loaded = <<>>
    /\ failed = {}
    /\ sponraw = <<>>
    /\ corpus = <<>>
    /\ meta = <<>>
    /\ i_prep = 0

\* python spon.py when every day of the range is already fetched: the day
\* loop skips every day (or breaks, when a signal has arrived by then), the
\* final store_pickle rewrites the archive cache unless the flag is set,
\* and the articles cache is loaded
StartFetch ==
    /\ pc = "off"
    /\ run < MaxRuns
    /\ \E signalled \in BOOLEAN :
       LET l == load_data_from_pickle(disk, ARCHIVE_CACHE, <<>>)
           fs == IF signalled THEN disk
                 ELSE [Rotate(disk, ARCHIVE_CACHE) EXCEPT
                          ![ARCHIVE_CACHE] = File(pickle_dump(l.data))]
           la == load_data_from_pickle(fs, ARTICLES_CACHE, <<>>)
       IN  /\ l.ok
           /\ \A d \in 0..(duration - 1) : AlreadyFetched(l.data, fetch_date_of(d))
           /\ run' = run + 1
           /\ disk' = fs
           /\ lastSaved' = IF signalled THEN lastSaved
                           ELSE [lastSaved EXCEPT ![ARCHIVE_CACHE] = Some(l.data)]
           /\ IF la.ok
              THEN /\ pc' = "fetch_day"
                   /\ abort_script' = signalled
                   /\ status' = "running"
                   /\ archive_rows' = l.data
                   /\ loaded' = l.data
                   /\ articles_data' = la.data
                   /\ fday' = 1
              ELSE /\ pc' = "off"
                   /\ status' = "crashed"
                   /\ archive_rows' = <<>>
                   /\ loaded' = <<>>
                   /\ articles_data' = <<>>
                   /\ fday' = 0
                   /\ abort_script' = FALSE
    /\ day' = duration
    /\ i_art' = 0
    /\ frame' = NoFrame
    /\ requests' = <<>>
    /\ UNCHANGED failed
    /\ UNCHANGED prepare

\* the date and the list the outer loop is at, and the article of the inner
fetch_date == archive_rows[fday].k

day_articles == archive_rows[fday].v

art == day_articles[i_art]

\* the archive entry is the object stored in the articles cache: a change
\* of art is a change of archive_rows
SetArt(a) == [archive_rows EXCEPT ![fday].v[i_art] = a]

\* archive_rows.items() is exhausted
FetchDayEnd ==
    /\ pc = "fetch_day"
    /\ fday > Len(archive_rows)
    /\ pc' = "fetch_final"
    /\ UNCHANGED <<run, status, abort_script, day, archive_rows, fetcher, disk, frame,
                   requests, loaded, lastSaved>>
    /\ UNCHANGED failed
    /\ UNCHANGED prepare

\* outer loop: if abort_script: break
FetchDayBreak ==
    /\ pc = "fetch_day"
    /\ fday <= Len(archive_rows)
    /\ abort_script
    /\ pc' = "fetch_final"
    /\ UNCHANGED <<run, status, abort_script, day, archive_rows, fetcher, disk, frame,
                   requests, loaded, lastSaved>>
    /\ UNCHANGED failed
    /\ UNCHANGED prepare

\* the inner loop over the day's articles starts
FetchDayEnter ==
    /\ pc = "fetch_day"
    /\ fday <= Len(archive_rows)
    /\ ~abort_script
    /\ pc' = "fetch_art"
    /\ i_art' = 1
    /\ UNCHANGED <<run, status, abort_script, day, archive_rows, articles_data, fday, disk,
                   frame, requests, loaded, lastSaved>>
    /\ UNCHANGED failed
    /\ UNCHANGED prepare

\* the day's list is exhausted
FetchArtEnd ==
    /\ pc = "fetch_art"
    /\ i_art > Len(day_articles)
    /\ pc' = "fetch_day"
    /\ fday' = fday + 1
    /\ UNCHANGED <<run, status, abort_script, day, archive_rows, articles_data, i_art, disk,
                   frame, requests, loaded, lastSaved>>
    /\ UNCHANGED failed
    /\ UNCHANGED prepare

\* inner loop: if abort_script: break
FetchArtBreak ==
    /\ pc = "fetch_art"
    /\ i_art <= Len(day_articles)
    /\ abort_script
    /\ pc' = "fetch_day"
    /\ fday' = fday + 1
    /\ UNCHANGED <<run, status, abort_script, day, archive_rows, articles_data, i_art, disk,
                   frame, requests, loaded, lastSaved>>
    /\ UNCHANGED failed
    /\ UNCHANGED prepare

\* logger.info(... art['url']) on an entry without 'url': KeyError
FetchKeyError ==
    /\ pc = "fetch_art"
    /\ i_art <= Len(day_articles)
    /\ ~abort_script
    /\ "url" \notin DOMAIN art
    /\ Raise
    /\ UNCHANGED <<run, disk, lastSaved>>
    /\ UNCHANGED failed
    /\ UNCHANGED prepare

\* the three skip checks: URL not on the site, error on the archive entry,
\* article already scraped (this one reads articles_data[fetch_date])
FetchSkip ==
    /\ pc = "fetch_art"
    /\ i_art <= Len(day_articles)
    /\ ~abort_script
    /\ "url" \in DOMAIN art
    /\ IF ~StartsWith(art.url, <<SPON>>) \/ IsError(art)
       THEN UNCHANGED articles_data
       ELSE /\ AlreadyScraped(articles_data, fetch_date, art.url)
            /\ articles_data' = Touch(articles_data, fetch_date, <<>>)
    /\ i_art' = i_art + 1
    /\ UNCHANGED <<pc, run, status, abort_script, day, archive_rows, fday, disk, frame,
                   requests, loaded, lastSaved>>
    /\ UNCHANGED failed
    /\ UNCHANGED prepare

\* requests.get(art['url']) is issued
FetchRequest ==
    /\ pc = "fetch_art"
    /\ i_art <= Len(day_articles)
    /\ ~abort_script
    /\ "url" \in DOMAIN art
    /\ StartsWith(art.url, <<SPON>>)
    /\ ~IsError(art)
    /\ ~AlreadyScraped(articles_data, fetch_date, art.url)
    /\ articles_data' = Touch(articles_data, fetch_date, <<>>)
    /\ requests' = Append(requests, [kind |-> "article", date |-> fetch_date, url |-> art.url])
    /\ pc' = "article_get"
    /\ UNCHANGED <<run, status, abort_script, day, archive_rows, fday, i_art, disk, frame,
                   loaded, lastSaved>>
    /\ UNCHANGED failed
    /\ UNCHANGED prepare

\* except IOError: error(art); store art; continue
FetchIOError ==
    /\ pc = "article_get"
    /\ LET a == error_obj(Msg("IO error on request"), art)
       IN  /\ archive_rows' = SetArt(a)
           /\ articles_data' = StoreArticle(articles_data, fetch_date, art.url, a)
    /\ failed' = failed \cup {<<fetch_date, art.url>>}
    /\ i_art' = i_art + 1
    /\ pc' = "fetch_art"
    /\ UNCHANGED <<run, status, abort_script, day, fday, disk, frame, requests, loaded,
                   lastSaved>>
    /\ UNCHANGED prepare

\* a response came: the page is parsed; an error is recorded and stored
\* (continue), or the record is updated and stored and store_pickle is
\* called; None.find_next ends the process
FetchResponse ==
    /\ pc = "article_get"
    /\ UNCHANGED prepare
    /\ \E r \in {x \in ArticleResponses : x.kind = "resp"} :
         LET res == ProcessArticle(art, r, run)
             data == StoreArticle(articles_data, fetch_date, art.url, res.art)
         IN  CASE res.end = "raised" ->
                    /\ Raise
                    /\ UNCHANGED <<run, disk, lastSaved, failed>>
               [] res.end = "error" ->
                    /\ archive_rows' = SetArt(res.art)
                    /\ articles_data' = data
                    /\ failed' = failed \cup {<<fetch_date, art.url>>}
                    /\ i_art' = i_art + 1
                    /\ pc' = "fetch_art"
                    /\ UNCHANGED <<run, status, abort_script, day, fday, disk, frame,
                                   requests, loaded, lastSaved>>
               [] OTHER ->
                    /\ archive_rows' = SetArt(res.art)
                    /\ articles_data' = data
                    /\ failed' = failed \ {<<fetch_date, art.url>>}
                    /\ Call_store_pickle(data, ARTICLES_CACHE, "fetch_next")
                    /\ UNCHANGED <<run, status, abort_script, day, fday, i_art, disk,
                                   requests, loaded, lastSaved>>

\* mutant: the final save and the export do not depend on the abort flag
FetchFinal_Always ==
    /\ pc = "fetch_final"
    /\ Call_store_pickle(articles_data, ARTICLES_CACHE, "export")
    /\ UNCHANGED <<run, status, abort_script, day, archive_rows, fetcher, disk, requests,
                   loaded, lastSaved, failed>>
    /\ UNCHANGED prepare

\* if not abort_script: the final store_pickle; else the script ends
FetchFinal ==
    /\ pc = "fetch_final"
    /\ IF abort_script
       THEN /\ pc' = "off"
            /\ status' = "aborted"
            /\ Forget
       ELSE /\ Call_store_pickle(articles_data, ARTICLES_CACHE, "export")
            /\ UNCHANGED <<status, abort_script, day, archive_rows, fetcher, requests, loaded>>
    /\ UNCHANGED <<run, disk, lastSaved>>
    /\ UNCHANGED failed
    /\ UNCHANGED prepare

\* the flattened cache is written to OUTPUT_JSON; the script ends
Export ==
    /\ pc = "export"
    /\ disk' = [disk EXCEPT ![OUTPUT_JSON] = File(json_dump(Flatten(articles_data)))]
    /\ pc' = "off"
    /\ status' = "done"
    /\ Forget
    /\ UNCHANGED <<run, lastSaved>>
    /\ UNCHANGED failed
    /\ UNCHANGED prepare

NextFetch ==
    \/ StartFetch
    \/ Signal
    \/ Kill
    \/ StoreRotate
    \/ StoreOpen
    \/ StoreFlush
    \/ StoreClose
    \/ FetchDayEnd
    \/ FetchDayBreak
    \/ FetchDayEnter
    \/ FetchArtEnd
    \/ FetchArtBreak
    \/ FetchKeyError
    \/ FetchSkip
    \/ FetchRequest
    \/ FetchIOError
    \/ FetchResponse
    \/ FetchFinal
    \/ Export

SpecFetch == InitFetch /\ [][NextFetch]_vars

\* ------------------------------------------------------------ both parts

\* a process is one that crawls (StartRun, its article part abstracted by
\* RestOfRun) or one that finds every day fetched (StartFetch); the files
\* at the start are those of a first run or those a crawl has left
SpecRun == (Init \/ InitFetch) /\ [][NextCrawl \/ NextFetch]_vars

\* ============================================ prepare.py (corpus builder)

MaxRecs == 3

\* the file prepare.py reads is the one spon.py writes
INPUT_DATA == OUTPUT_JSON

\* json.load of what json.dump wrote: the list of objects, in order
json_load(bytes) == [i \in 1..(Len(bytes) - 2) |-> bytes[i + 1].obj]

\* re.compile(r'\.html?$').search(url)
pttrn_urlend_search(url) == url # <<>> /\ url[Len(url)] \in {".html", ".htm"}

\* s.rindex(c): the last position of s that holds c
rindex(s, c) == CHOOSE i \in DOMAIN s : s[i] \in c /\ \A j \in DOMAIN s : j > i => s[j] \notin c

\* the document label: the URL after its last '/', without a final .htm(l)
doclabel(url) ==
    LET urlend == IF pttrn_urlend_search(url) THEN Some(rindex(url, {".html", ".htm"})) ELSE None
        from == rindex(url, {"/"}) + 1
    IN  SubSeq(url, from, IF urlend = None THEN Len(url) ELSE urlend[1] - 1)

\* sep.join(strs)
RECURSIVE join(_, _)
join(sep, strs) ==
    IF strs = <<>> THEN <<>>
    ELSE IF Len(strs) = 1 THEN strs[1]
    ELSE strs[1] \o <<sep>> \o join(sep, Tail(strs))

\* headline, abstract and paragraphs, separated by double linebreaks
doctext(a) ==
    join("\n\n", <<a.archive_headline,
                   IF a.intro = None \/ a.intro[1] = <<>> THEN <<>> ELSE a.intro[1],
                   join("\n\n", a.paragraphs)>>)

\* {k: v for k, v in art.items() if k in {'categ', 'pub_date', 'author'}}
metadata(a) == [k \in DOMAIN a \cap {"categ", "pub_date", "author"} |-> a[k]]

\* mutant: a record whose label is already stored replaces the stored one
StoreDocument_Overwrite(c, m, a) ==
    [corpus |-> Put(c, doclabel(a.url), doctext(a)),
     meta |-> Put(m, doclabel(a.url), metadata(a)),
     raised |-> FALSE]

\* store to corpus and metadata dicts: a duplicate label is ignored; the
\* assertion fails when a new label is already in meta
StoreDocument(c, m, a) ==
    IF HasKey(c, doclabel(a.url))
    THEN [corpus |-> c, meta |-> m, raised |-> FALSE]
    ELSE IF HasKey(m, doclabel(a.url))
    THEN [corpus |-> Put(c, doclabel(a.url), doctext(a)), meta |-> m, raised |-> TRUE]
    ELSE [corpus |-> Put(c, doclabel(a.url), doctext(a)),
          meta |-> Put(m, doclabel(a.url), metadata(a)),
          raised |-> FALSE]

\* ---- the exported records prepare.py is run on

\* a page with a headline and an empty body: intro None, no paragraphs
PNoText == Page(FALSE, TRUE, TRUE, Spans, None, None, <<Body(<<>>, <<>>)>>)

\* two URLs that end in a1 (.html, and .htm below a directory), one without
\* an ending
UH == <<SPON, "/", "x", "/", "a1", ".htm">>

UN == <<SPON, "/", "a2">>

\* the archive entry of a valid teaser for url, listed on date d
Entry(url, d) == Get(ProcessTeaser(<<>>, d, TOk(url), 1).rows, d)[1]

PrepEntries == {Entry(U1, START_DATE), Entry(UH, START_DATE + 1), Entry(UN, START_DATE)}

PrepResponses ==
    {[kind |-> "resp", ok |-> TRUE, page |-> PGood],
     [kind |-> "resp", ok |-> TRUE, page |-> PNoText],
     [kind |-> "resp", ok |-> FALSE, page |-> PNoArticle]}

\* the records the article loop stores for these entries and responses
PrepRecords == {ProcessArticle(e, r, 2).art : e \in PrepEntries, r \in PrepResponses}

\* before python prepare.py: the JSON file holds up to MaxRecs records
InitCorpus ==
    /\ pc = "prepare_load"
    /\ run = 0
    /\ status = "none"
    /\ abort_script = FALSE
    /\ day = 0
    /\ archive_rows = <<>>
    /\ articles_data = <<>>
    /\ fday = 0
    /\ i_art = 0
    /\ \E recs \in SeqsUpTo(PrepRecords, MaxRecs) :
         disk = [f \in Files |-> IF f = INPUT_DATA THEN File(json_dump(recs)) ELSE NoFile]
    /\ frame = NoFrame
    /\ requests = <<>>
    /\ loaded = <<>>
    /\ lastSaved = [f \in {ARCHIVE_CACHE, ARTICLES_CACHE} |-> None]
    /\ failed = {}
    /\ sponraw = <<>>
    /\ corpus = <<>>
    /\ meta = <<>>
    /\ i_prep = 0

spon == <<pc, run, status, abort_script, day, archive_rows, articles_data, fday, i_art,
          disk, frame, requests, loaded, lastSaved, failed>>

\* sponraw = json.load(f); corpus = {}; meta = {}
PrepLoad ==
    /\ pc = "prepare_load"
    /\ sponraw' = json_load(disk[INPUT_DATA].bytes)
    /\ corpus' = <<>>
    /\ meta' = <<>>
    /\ i_prep' = 1
    /\ pc' = "prepare_loop"
    /\ UNCHANGED <<run, status, abort_script, day, archive_rows, fetcher, disk, frame,
                   requests, loaded, lastSaved, failed>>

\* if 'error_message' in art: continue
PrepSkip ==
    /\ pc = "prepare_loop"
    /\ i_prep <= Len(sponraw)
    /\ IsError(sponraw[i_prep])
    /\ i_prep' = i_prep + 1
    /\ UNCHANGED <<spon, sponraw, corpus, meta>>

\* a record without error: label and text are derived and stored
PrepStore ==
    /\ pc = "prepare_loop"
    /\ i_prep <= Len(sponraw)
    /\ ~IsError(sponraw[i_prep])
    /\ LET res == StoreDocument(corpus, meta, sponraw[i_prep])
       IN  /\ corpus' = res.corpus
           /\ meta' = res.meta
           /\ IF res.raised
              THEN /\ pc' = "off"
                   /\ status' = "crashed"
                   /\ UNCHANGED i_prep
              ELSE /\ i_prep' = i_prep + 1
                   /\ UNCHANGED <<pc, status>>
    /\ UNCHANGED <<run, abort_script, day, archive_rows, fetcher, disk, frame,
                   requests, loaded, lastSaved, failed, sponraw>>

\* the loop is over
PrepEnd ==
    /\ pc = "prepare_loop"
    /\ i_prep > Len(sponraw)
    /\ pc' = "prepare_done"
    /\ UNCHANGED <<run, status, abort_script, day, archive_rows, fetcher, disk, frame,
                   requests, loaded, lastSaved, failed, prepare>>

NextCorpus ==
    \/ PrepLoad
    \/ PrepSkip
    \/ PrepStore
    \/ PrepEnd

SpecCorpus == InitCorpus /\ [][NextCorpus]_vars

\* ======================================================== claims (crawl)

Dates == START_DATE..END_DATE

\* the day's list, empty when the date is no key
Rows(rows, d) == IF HasKey(rows, d) THEN Get(rows, d) ELSE <<>>

RequestedDates == {requests[i].date : i \in {j \in DOMAIN requests : requests[j].kind = "archive"}}

\* a date marked complete: at least one entry, no error on the first
MarkedComplete(rows, d) ==
    /\ Len(Rows(rows, d)) >= 1
    /\ "error_message" \notin DOMAIN Rows(rows, d)[1]

\* C1: a date that the ArchiveCache loaded by a process marks complete (at
\* least one entry, no error_message on the first) gets no listing request
\* from that process, and its list stays as loaded, whatever the other
\* dates hold.
C1_CrawlerIdempotentSkip ==
    \A d \in Dates :
        MarkedComplete(loaded, d) =>
            /\ d \notin RequestedDates
            /\ Rows(archive_rows, d) = Rows(loaded, d)

\* C1 witness: a second process has passed a complete first date without a
\* request and has requested the other date.
C1_Witness ==
    /\ run = 2
    /\ pc = "archive_get"
    /\ MarkedComplete(loaded, START_DATE)
    /\ ~MarkedComplete(loaded, START_DATE + 1)
    /\ Len(Rows(loaded, START_DATE + 1)) >= 1
    /\ RequestedDates = {START_DATE + 1}

\* C3 (as claimed): a date whose loaded list holds an entry without an error
\* at any position gets no listing request from that process.
C3_AnyCleanEntryIsComplete ==
    \A d \in Dates :
        (\E i \in DOMAIN Rows(loaded, d) : "error_message" \notin DOMAIN Rows(loaded, d)[i])
            => d \notin RequestedDates

\* C6 (as claimed): a crawl that started with an empty ArchiveCache and left
\* the day loop without an abort has requested every day from START_DATE to
\* END_DATE, END_DATE included.
C6_ClosedRangeVisited ==
    (pc = "crawl_final" /\ ~abort_script /\ loaded = <<>>)
        => \A d \in START_DATE..END_DATE : d \in RequestedDates

\* the teasers the claim counts as excluded
TaggedOrAd(hcont) ==
    \/ \E k \in {"gallery", "video", "audio", "paid"} : k \in hcont.flags
    \/ hcont.ad

CountTaggedOrAd(hs) == Cardinality({i \in DOMAIN hs : TaggedOrAd(hs[i])})

OneContainerPages ==
    {[kind |-> "resp", ok |-> TRUE, container |-> <<hs>>] : hs \in SeqsUpTo(AllTeasers, MaxTeasers)}

\* C7 (as claimed): when the response for a day without prior entries is a
\* page with one container of N teasers, M of them excluded, processing the
\* day ends with exactly N - M entries in the day's list.
C7_TeaserCount ==
    (pc = "archive_get" /\ Rows(archive_rows, fetch_date_of(day)) = <<>>) =>
        \A r \in OneContainerPages :
            LET res == ProcessListing(archive_rows, fetch_date_of(day), r, run)
                hs == r.container[1]
            IN  /\ ~res.raised
                /\ Len(Rows(res.rows, fetch_date_of(day))) = Len(hs) - CountTaggedOrAd(hs)

MalformedPages ==
    {[kind |-> "resp", ok |-> TRUE, container |-> c] : c \in {<<>>, << <<>>, <<>> >>, << <<>>, <<>>, <<>> >>}}

ContainerError(e) ==
    /\ "error_message" \in DOMAIN e
    /\ Head(e.error_message) = "unexpected number of elements in main container: "

\* C8 (as claimed): when a day that so far saw only malformed pages (its
\* list is empty or holds what malformed pages left) is processed with a
\* malformed page, its list then holds exactly one error entry and no
\* article entry.
C8_MalformedOneError ==
    (/\ pc = "archive_get"
     /\ \A i \in DOMAIN Rows(archive_rows, fetch_date_of(day)) :
            ContainerError(Rows(archive_rows, fetch_date_of(day))[i])) =>
        \A r \in MalformedPages :
            LET list == Rows(ProcessListing(archive_rows, fetch_date_of(day), r, run).rows,
                             fetch_date_of(day))
            IN  Len(list) = 1 /\ ContainerError(list[1])

\* the data a cache file holds, if it is a complete pickle of it
Intact(fs, fname, data) ==
    /\ fs[fname].exists
    /\ pickle_load(fs[fname].bytes) = [ok |-> TRUE, data |-> data]

\* C4: whenever a save has completed, the data of the last completed save
\* is intact at the live path or at the backup path: in every state, so
\* also at a kill before the rename, between rename and write, or mid-write.
C4_SnapshotRecoverable ==
    \A f \in {ARCHIVE_CACHE, ARTICLES_CACHE} :
        lastSaved[f] # None =>
            \/ Intact(disk, f, lastSaved[f][1])
            \/ Intact(disk, Backup(f), lastSaved[f][1])

\* C4 witness: a process was killed mid-write of a save that followed a
\* completed save: the live file is a truncated pickle, the backup is whole.
C4_Witness ==
    /\ pc = "off"
    /\ status = "killed"
    /\ lastSaved[ARCHIVE_CACHE] # None
    /\ disk[ARCHIVE_CACHE].exists
    /\ disk[ARCHIVE_CACHE].bytes # <<>>
    /\ ~pickle_load(disk[ARCHIVE_CACHE].bytes).ok
    /\ Intact(disk, Backup(ARCHIVE_CACHE), lastSaved[ARCHIVE_CACHE][1])

\* the step in which store_pickle returns
StoreReturns == pc = "store_close" /\ pc' \notin {"off", "store_close"}

\* C5: when a save returns, load gives the saved data back, and if a save
\* completed before, the backup path holds exactly that save's data.
C5_RoundTripAndRotation ==
    [][StoreReturns =>
        /\ load_data_from_pickle(disk', frame.fname, <<>>) = [ok |-> TRUE, data |-> frame.data]
        /\ lastSaved[frame.fname] # None =>
               Intact(disk', Backup(frame.fname), lastSaved[frame.fname][1])]_vars

\* C5 witness: two saves with different data have completed and a third has
\* replaced an older backup: live and backup hold different data.
C5_Witness ==
    /\ pc = "crawl"
    /\ day = 2
    /\ lastSaved[ARCHIVE_CACHE] # None
    /\ Intact(disk, ARCHIVE_CACHE, archive_rows)
    /\ disk[Backup(ARCHIVE_CACHE)].exists
    /\ pickle_load(disk[Backup(ARCHIVE_CACHE)].bytes).ok
    /\ pickle_load(disk[Backup(ARCHIVE_CACHE)].bytes).data # archive_rows
    /\ Len(archive_rows) = 2
    /\ run = 2

IOErrorEntry == [error_message |-> <<"IO error on request">>]

\* the step that handles a transport failure of a listing request: from the
\* request in flight straight back to the head of the day loop
TransportFailureStep == pc = "archive_get" /\ pc' = "crawl"

\* the state after an un-aborted run over the two days that started with an
\* empty cache, got one valid teaser for day 1 and a timeout for day 2
TwoDayRunDone ==
    /\ pc = "fetch_load"
    /\ ~abort_script
    /\ loaded = <<>>
    /\ Len(Rows(archive_rows, START_DATE)) = 1
    /\ "error_message" \notin DOMAIN Rows(archive_rows, START_DATE)[1]
    /\ Rows(archive_rows, START_DATE + 1) = <<IOErrorEntry>>

\* C9: a transport failure of a day's listing request appends exactly one
\* error entry to that day's list, leaves every other day's list as it is,
\* issues no request and moves on to the next day; no process requests a day
\* twice; and after the two-day run the archive cache file holds day 1 with
\* its one entry and day 2 with the one error entry.
C9_TransportFailureIsolated ==
    /\ [][TransportFailureStep =>
            /\ Rows(archive_rows', fetch_date_of(day))
                   = Append(Rows(archive_rows, fetch_date_of(day)), IOErrorEntry)
            /\ \A d \in Dates \ {fetch_date_of(day)} :
                   /\ Rows(archive_rows', d) = Rows(archive_rows, d)
                   /\ HasKey(archive_rows', d) <=> HasKey(archive_rows, d)
            /\ requests' = requests
            /\ day' = day + 1]_vars
    /\ [](\A i, j \in DOMAIN requests : i # j => requests[i] # requests[j])
    /\ [](TwoDayRunDone =>
            /\ Intact(disk, ARCHIVE_CACHE, archive_rows)
            /\ Len(Rows(pickle_load(disk[ARCHIVE_CACHE].bytes).data, START_DATE)) = 1
            /\ Rows(pickle_load(disk[ARCHIVE_CACHE].bytes).data, START_DATE + 1)
                   = <<IOErrorEntry>>)

\* C9 witness: the two-day run has ended that way.
C9_Witness == TwoDayRunDone /\ Len(requests) = 2

\* ======================================================== claims (fetch)

\* the record the ArticlesCache holds for (date, url), if any
HasRecord(data, d, u) == HasKey(data, d) /\ HasKey(Get(data, d), u)

Record(data, d, u) == Get(Get(data, d), u)

\* the request a step issues, if it issues one
IssuesRequest == Len(requests') = Len(requests) + 1

Issued == requests'[Len(requests')]

\* C2: no step issues an article request for a (date, URL) whose record in
\* the process's ArticlesCache carries no error_message; a second entry with
\* the same URL in the day's list is such a (date, URL).
C2_FetcherIdempotentSkip ==
    [][(IssuesRequest /\ Issued.kind = "article") =>
          ~(/\ HasRecord(articles_data, Issued.date, Issued.url)
            /\ "error_message" \notin DOMAIN Record(articles_data, Issued.date, Issued.url))]_vars

\* C2 witness: the day's list holds the same URL twice; the first entry was
\* fetched and stored without an error, the second was passed with no
\* further request.
C2_Witness ==
    /\ pc = "fetch_art"
    /\ fday = 1
    /\ i_art = 3
    /\ Len(day_articles) = 2
    /\ day_articles[1].url = day_articles[2].url
    /\ Len(requests) = 1
    /\ HasRecord(articles_data, fetch_date, day_articles[2].url)
    /\ "error_message" \notin DOMAIN Record(articles_data, fetch_date, day_articles[2].url)

\* no step of a process replaces or changes a record without error_message
NonErrorRecordKept ==
    pc' # "off" =>
        \A d \in Dates : \A u \in {U1, U2, UB} :
            (/\ HasRecord(articles_data, d, u)
             /\ "error_message" \notin DOMAIN Record(articles_data, d, u))
                => /\ HasRecord(articles_data', d, u)
                   /\ Record(articles_data', d, u) = Record(articles_data, d, u)

\* C10 (as claimed): a page without exactly one body container makes the
\* Fetcher store an error record for the (date, URL); and no step of a
\* process replaces or changes a record without error_message.
C10_MissingBodyIsErrorRecord ==
    /\ [](pc = "article_get" =>
            \A r \in {x \in AllArticleResponses :
                        x.kind = "resp" /\ x.ok /\ Len(x.page.bodies) # 1} :
                LET res == ProcessArticle(art, r, run)
                IN  /\ res.end = "error"
                    /\ "error_message" \in DOMAIN res.art)
    /\ [][NonErrorRecordKept]_vars

\* ======================================================= claims (export)

\* the records of the JSON array a file holds
Exported(fs) ==
    LET bytes == fs[OUTPUT_JSON].bytes
    IN  [i \in 1..(Len(bytes) - 2) |-> bytes[i + 1].obj]

\* the number of records of the first n dates of the ArticlesCache
RECURSIVE SizeUpTo(_, _)
SizeUpTo(data, n) == IF n = 0 THEN 0 ELSE SizeUpTo(data, n - 1) + Len(data[n].v)

\* the step in which the export file is written
ExportStep == pc = "export" /\ pc' = "off" /\ status' = "done"

\* C11: the exported array holds, for the i-th date and its j-th URL in
\* insertion order, that record at position (records of earlier dates) + j,
\* error records included, and nothing else: its length is the sum of the
\* sizes of the per-date mappings.
C11_ExportFlattening ==
    [][ExportStep =>
        LET out == Exported(disk')
        IN  /\ disk'[OUTPUT_JSON].exists
            /\ Head(disk'[OUTPUT_JSON].bytes).op = "["
            /\ disk'[OUTPUT_JSON].bytes[Len(disk'[OUTPUT_JSON].bytes)].op = "]"
            /\ Len(out) = SizeUpTo(articles_data, Len(articles_data))
            /\ \A i \in DOMAIN articles_data : \A j \in DOMAIN articles_data[i].v :
                   out[SizeUpTo(articles_data, i - 1) + j] = articles_data[i].v[j].v]_vars

\* C11 witness: an export of records of two dates, the first a parsed
\* article and the second an error record.
C11_Witness ==
    /\ pc = "off"
    /\ status = "done"
    /\ disk[OUTPUT_JSON].exists
    /\ Len(Exported(disk)) = 2
    /\ Exported(disk)[1].pub_date # Exported(disk)[2].pub_date
    /\ "paragraphs" \in DOMAIN Exported(disk)[1]
    /\ "error_message" \in DOMAIN Exported(disk)[2]

\* ================================================ claims (error handling)

\* a step in which the process handles page contents or an archive entry
ContentStep == pc \in {"archive_get", "fetch_art", "article_get"}

\* C12 (as claimed): whatever the pages and the archive entries hold, no
\* exception leaves the handling of a day, a teaser or an article: a step
\* that handles contents never ends the process with an uncaught exception.
C12_ContentErrorsNeverStop ==
    [][ContentStep => status' # "crashed"]_vars

\* the article loop stands at an entry whose latest request ended in an error
AtFailedEntry ==
    /\ pc = "fetch_art"
    /\ i_art <= Len(day_articles)
    /\ "url" \in DOMAIN art
    /\ <<fetch_date, art.url>> \in failed

TextFields == {"retrieved", "topline", "headline", "author", "intro", "paragraphs"}

\* C13: when the article loop comes to a (date, URL) whose latest request
\* ended in an error (in this or an earlier process, aborted or not) and no
\* abort is pending, its step is the request for that URL; and when the
\* response to such a retry is parsed and stored, the stored record has the
\* six text fields and no error_message.
C13_RetryAcrossRuns ==
    /\ [][(AtFailedEntry /\ ~abort_script /\ ~abort_script' /\ pc' # "off") =>
            /\ pc' = "article_get"
            /\ requests' = Append(requests, [kind |-> "article", date |-> fetch_date,
                                             url |-> art.url])]_vars
    /\ [][(pc = "article_get" /\ <<fetch_date, art.url>> \in failed /\ pc' = "store_rotate") =>
            LET rec == Get(Get(articles_data', fetch_date), art.url)
            IN  /\ TextFields \subseteq DOMAIN rec
                /\ "error_message" \notin DOMAIN rec]_vars

\* C13 witness: the second process has requested a (date, URL) again whose
\* request failed in the first process, which ended before any save of the
\* ArticlesCache (it was aborted or killed after the error).
C13_Witness ==
    /\ run = 2
    /\ pc = "article_get"
    /\ <<fetch_date, art.url>> \in failed
    /\ ~disk[ARTICLES_CACHE].exists
    /\ requests = <<[kind |-> "article", date |-> fetch_date, url |-> art.url]>>

\* a non-excluded teaser with URL, headline and three footer fields whose
\* first footer field gives no valid time of day
UnparsableTime(hcont) ==
    /\ ~TaggedOrAd(hcont)
    /\ hcont.title_elem
    /\ hcont.href # <<>>
    /\ hcont.title # <<>>
    /\ Len(hcont.hfoot) = 3
    /\ LET m_time == pttrn_time_search(Strip(hcont.hfoot[1]))
       IN  m_time = None \/ ~ValidTime(IntOf(m_time[1][1]), IntOf(m_time[1][2]))

\* C14 (as claimed): when the teaser loop comes to a teaser with a URL, a
\* headline and three footer fields but no valid time of day, it appends
\* one entry without error_message and with publish time unset to the
\* day's list, and no exception leaves the iteration.
C14_UnparsableTimeKeepsTeaser ==
    pc = "archive_get" =>
        \A hcont \in {h \in AllTeasers : UnparsableTime(h)} :
            LET d == fetch_date_of(day)
                res == ProcessTeaser(archive_rows, d, hcont, run)
                list == Rows(res.rows, d)
            IN  /\ ~res.raised
                /\ Len(list) = Len(Rows(archive_rows, d)) + 1
                /\ "error_message" \notin DOMAIN list[Len(list)]
                /\ list[Len(list)].url = hcont.href
                /\ list[Len(list)].pub_time = None

\* the article loop stands at an archive entry that carries an error
AtErrorEntry ==
    /\ pc = "fetch_art"
    /\ i_art <= Len(day_articles)
    /\ "error_message" \in DOMAIN art

\* C15 (as claimed): when the article loop comes to an archive entry that
\* carries an error, the step of the program (no signal, no kill) goes on to
\* the next entry of the day, issues no request and leaves the
\* ArticlesCache as it is.
C15_ErroredEntrySkipped ==
    [][(AtErrorEntry /\ ~abort_script /\ ~abort_script' /\ status' # "killed") =>
            /\ pc' = "fetch_art"
            /\ i_art' = i_art + 1
            /\ fday' = fday
            /\ requests' = requests
            /\ articles_data' = articles_data]_vars

\* ================================================== claims (persistence)

\* the step that ends the handling of a requested article and returns to
\* the head of the article loop: the continue of an error path, or the
\* return of the store_pickle that follows a parsed article
ArticleDone ==
    /\ \/ pc = "article_get"
       \/ pc = "store_close" /\ frame.ret = "fetch_next"
    /\ pc' = "fetch_art"

\* C16 (as claimed): when the handling of a requested article is over,
\* whether it ended in a parsed record or in an error record, the
\* ArticlesCache file holds the in-memory ArticlesCache.
C16_FetcherSavesEveryArticle ==
    [][ArticleDone => Intact(disk', ARTICLES_CACHE, articles_data')]_vars

\* the step that ends the handling of a requested day and returns to the
\* head of the day loop: the continue after an IOError, or the return of
\* the store_pickle at the end of the loop body
DayDone ==
    /\ \/ pc = "archive_get"
       \/ pc = "store_close" /\ frame.ret = "crawl_next"
    /\ pc' = "crawl"

\* C17 (as claimed): when the handling of a day that was not skipped is
\* over, however it ended, the ArchiveCache file holds the in-memory
\* ArchiveCache.
C17_CrawlerSavesEveryDay ==
    [][DayDone => Intact(disk', ARCHIVE_CACHE, archive_rows')]_vars

\* ======================================================== claims (abort)

\* how far the process is from its end once the abort flag is set
Rank ==
    CASE pc = "off" -> 0
      [] pc \in {"fetch_load", "export"} -> 1
      [] pc \in {"crawl_final", "fetch_final"} -> 2
      [] pc \in {"crawl", "fetch_day"} -> 3
      [] pc = "fetch_art" -> 4
      [] pc = "store_close" -> 5
      [] pc = "store_dump" -> 6
      [] pc = "store_open" -> 7
      [] pc = "store_rotate" -> 8
      [] OTHER -> 9

C19_ExportGating ==
    /\ [][(pc = "fetch_final" /\ abort_script) => (pc' = "off" /\ disk' = disk)]_vars
    /\ [][(pc = "fetch_final" /\ ~abort_script /\ ~abort_script' /\ pc' # "off") =>
            /\ pc' = "store_rotate"
            /\ frame' = [fname |-> ARTICLES_CACHE, data |-> articles_data,
                         bytes |-> pickle_dump(articles_data), ret |-> "export"]]_vars
    /\ [][(frame'.ret = "export" /\ frame.ret # "export") =>
            (pc = "fetch_final" /\ ~abort_script)]_vars
    /\ [][(pc' = "export" /\ pc # "export") =>
            (pc = "store_close" /\ frame.ret = "export"
                /\ Intact(disk', ARTICLES_CACHE, articles_data'))]_vars
    /\ [][disk'[OUTPUT_JSON] # disk[OUTPUT_JSON] => pc = "export"]_vars
    /\ [][(pc = "export" /\ pc' = "off" /\ status' # "killed") =>
            disk'[OUTPUT_JSON] = File(json_dump(Flatten(articles_data)))]_vars

\* C19 witness: the second process was aborted after it had saved a retried
\* article; the export the first process wrote is still there and differs
\* from what the saved ArticlesCache would give.
C19_Witness ==
    /\ pc = "off"
    /\ status = "aborted"
    /\ run = 2
    /\ disk[OUTPUT_JSON].exists
    /\ pickle_load(disk[ARTICLES_CACHE].bytes).ok
    /\ disk[OUTPUT_JSON].bytes # json_dump(Flatten(pickle_load(disk[ARTICLES_CACHE].bytes).data))

\* ================================================== claims (frame effect)

\* C20 (as claimed): no step of the article part changes the in-memory
\* ArchiveCache: while the process is in its article part, the ArchiveCache
\* is the one it had when that part started.
C20_FetcherLeavesArchive ==
    /\ [][(pc \in {"fetch_day", "fetch_art", "article_get", "fetch_final", "export"}
            /\ pc' # "off") => archive_rows' = archive_rows]_vars
    /\ [](pc \in {"fetch_day", "fetch_art", "article_get", "fetch_final", "export"}
            => archive_rows = loaded)

\* ==================================================== claims (uniqueness)

\* listing pages with one container in which no two teasers link to the
\* same URL
UniquePages ==
    {r \in OneContainerPages :
        \A i, j \in DOMAIN r.container[1] :
            (i # j /\ r.container[1][i].title_elem /\ r.container[1][j].title_elem)
                => r.container[1][i].href # r.container[1][j].href}

\* no two entries of a day's list have the same URL
NoDuplicateURL(list) ==
    \A i, j \in DOMAIN list :
        (i # j /\ "url" \in DOMAIN list[i] /\ "url" \in DOMAIN list[j])
            => list[i].url # list[j].url

\* C21 (as claimed): a day without entries is fetched from a page that
\* lists no URL twice, and where the already-fetched check of a later run
\* lets the day be fetched again, from such a page as well, the day's list
\* then holds no two entries with the same URL.
C21_UniqueURLPerDay ==
    (pc = "archive_get" /\ Rows(archive_rows, fetch_date_of(day)) = <<>>) =>
        \A r1 \in UniquePages : \A r2 \in UniquePages :
            LET d == fetch_date_of(day)
                first == ProcessListing(archive_rows, d, r1, run)
                saved == Touch(first.rows, d, <<>>)
                again == ProcessListing(saved, d, r2, run + 1)
            IN  (~first.raised /\ ~AlreadyFetched(saved, d) /\ ~again.raised)
                    => NoDuplicateURL(Rows(again.rows, d))

\* ================================================= claims (record shape)

\* a record is an error record without text, or a text record without error
ErrorXorText(rec) ==
    IF "error_message" \in DOMAIN rec
    THEN DOMAIN rec \cap TextFields = {}
    ELSE TextFields \subseteq DOMAIN rec

\* every record of an ArticlesCache has one of the two shapes
WellShaped(data) ==
    \A i \in DOMAIN data : \A j \in DOMAIN data[i].v : ErrorXorText(data[i].v[j].v)

\* what a file holds, when it is a complete pickle; otherwise nothing
Held(fs, fname) ==
    IF fs[fname].exists /\ pickle_load(fs[fname].bytes).ok
    THEN pickle_load(fs[fname].bytes).data ELSE <<>>

\* C22: every record of the ArticlesCache, in memory, in the live file and
\* in the backup file, either has error_message and none of the six text
\* fields, or has all six text fields and no error_message.
C22_ErrorXorText ==
    /\ WellShaped(articles_data)
    /\ WellShaped(Held(disk, ARTICLES_CACHE))
    /\ WellShaped(Held(disk, Backup(ARTICLES_CACHE)))

\* C22 witness: in its second run the process has stored the parsed retry
\* of a URL whose error record the first run had saved; the live file holds
\* the text record, the backup still the error record.
C22_Witness ==
    /\ run = 2
    /\ pc = "fetch_art"
    /\ \E d \in Dates : \E u \in {U1, U2} :
         /\ HasRecord(Held(disk, ARTICLES_CACHE), d, u)
         /\ HasRecord(Held(disk, Backup(ARTICLES_CACHE)), d, u)
         /\ "paragraphs" \in DOMAIN Record(Held(disk, ARTICLES_CACHE), d, u)
         /\ "error_message" \in DOMAIN Record(Held(disk, Backup(ARTICLES_CACHE)), d, u)

\* =================================================== claims (resumption)

\* the (key, entry) pairs of a cache
Entries(data) ==
    UNION {{<<data[i].k, data[i].v[j]>> : j \in DOMAIN data[i].v} : i \in DOMAIN data}

\* the entries a cache file and its backup hold between them
OnDisk(fs, fname) == Entries(Held(fs, fname)) \cup Entries(Held(fs, Backup(fname)))

\* the step in which a process starts and loads the ArchiveCache
Restart == pc = "off" /\ run' = run + 1

\* C23 (as claimed): the ArchiveCache a process loads at start-up holds
\* every entry of the last completely written snapshot, whatever kills came
\* before; and no step removes an entry from both the live and the backup
\* file.
C23_ResumptionKeepsProgress ==
    /\ [][(Restart /\ lastSaved[ARCHIVE_CACHE] # None) =>
            /\ status' = "running"
            /\ Entries(lastSaved[ARCHIVE_CACHE][1]) \subseteq Entries(archive_rows')]_vars
    /\ [][OnDisk(disk, ARCHIVE_CACHE) \subseteq OnDisk(disk', ARCHIVE_CACHE)]_vars

\* ======================================================= claims (corpus)

\* the records the corpus loop has processed so far
Processed == SubSeq(sponraw, 1, i_prep - 1)

\* the positions of the processed records without error that derive label
Deriving(label) ==
    {i \in DOMAIN Processed : ~IsError(Processed[i]) /\ doclabel(Processed[i].url) = label}

\* the first record in export order that derives label
FirstOf(label) == Processed[CHOOSE i \in Deriving(label) : \A j \in Deriving(label) : i <= j]

\* C24: at every point of the corpus loop the assertion has not failed,
\* corpus and meta have the same labels, these are exactly the labels
\* derived from the processed records without error_message, and the text
\* and the metadata of a label are those of the first such record.
C24_CorpusDeduplication ==
    /\ status # "crashed"
    /\ pc \in {"prepare_loop", "prepare_done"} =>
         /\ Keys(corpus) = Keys(meta)
         /\ Keys(corpus) = {doclabel(Processed[i].url) :
                              i \in {j \in DOMAIN Processed : ~IsError(Processed[j])}}
         /\ \A label \in Keys(corpus) :
              /\ Get(corpus, label) = doctext(FirstOf(label))
              /\ Get(meta, label) = metadata(FirstOf(label))

\* three records were processed: an error record and two records without
\* error whose different URLs derive the same label and whose texts and
\* metadata differ
C24_Witness ==
    /\ pc = "prepare_done"
    /\ Len(sponraw) = 3
    /\ IsError(sponraw[1])
    /\ ~IsError(sponraw[2])
    /\ ~IsError(sponraw[3])
    /\ sponraw[2].url # sponraw[3].url
    /\ doclabel(sponraw[2].url) = doclabel(sponraw[3].url)
    /\ doclabel(sponraw[1].url) # doclabel(sponraw[2].url)
    /\ doctext(sponraw[2]) # doctext(sponraw[3])
    /\ metadata(sponraw[2]) # metadata(sponraw[3])
    /\ Len(corpus) = 1

====
